---------------------------- MODULE Spec2Model ----------------------------
(***************************************************************************)
(* A model of the remotion_render compositions of technify-motions:        *)
(*   - FlowchartAnimation.tsx: computeLayout, the viewport fit, the reveal *)
(*     schedule of nodes and edges, the elements AnimatedNode and          *)
(*     AnimatedEdge emit at a frame, wrapLabel, and Root's                 *)
(*     calculateMetadata;                                                  *)
(*   - CodeSlide.tsx: tokenize, and the staggered fade-in of the lines;    *)
(*   - BulletsSlide.tsx: the staggered fade-in of the bullet points.       *)
(*                                                                         *)
(* Numbers.  The code computes in IEEE doubles; the model computes the     *)
(* same expressions in exact rationals kept as integer numerator and       *)
(* denominator (0.18 = 18/100, 0.55 = 55/100, 0.88 = 22/25, 0.9 = 9/10,    *)
(* 1.6 = 8/5).  Math.round is round-half-up: floor(x + 1/2).               *)
(* durationSeconds is kept in hundredths of a second.                      *)
(*                                                                         *)
(* Text.  A string is a sequence of one-character strings.                 *)
(***************************************************************************)
EXTENDS Integers, Sequences, FiniteSets, TLC

VARIABLES
    \* ---- one clip of the FlowchartAnimation composition ----
    props,             \* GraphProps: nodes, edges, title, durationSeconds
    dagre,             \* what Dagre.layout yields for this graph (a placement)
    routing,           \* what g.edge(from, to) yields after Dagre.layout
    harnessFrames,     \* how many frames the harness requests of the clip
    durationInFrames,  \* the composition's durationInFrames
    pc,                \* "idle" | "metadata" | "render"
    frame,             \* useCurrentFrame() of the last evaluation, -1 before the first
    layout,            \* computeLayout's result in the last evaluation
    scale,             \* the viewport fit's scale, [num, den]
    nodeStartFrames,   \* Record<string, number> of the last evaluation
    edgeStartFrames,   \* number[] of the last evaluation
    translate,         \* the viewport fit's (tx, ty), [tx, ty, den]: tx/den, ty/den
    visual,            \* the node and edge elements of the last evaluation
    layoutCalls,       \* how many times computeLayout has run in this clip
    scheduleCalls,     \* how many times the schedule has been computed in this clip
    \* ---- wrapLabel ----
    label, maxChars, wrapped, wpc,
    \* ---- CodeSlide's tokenize ----
    line, language, tokens, tpc,
    \* ---- one clip of the BulletsSlide or CodeSlide composition ----
    slide,             \* "idle" | "bullets" | "code"
    items,             \* points.length, or code.split("\n").length
    slideFrames,       \* the composition's durationInFrames
    sframe,            \* useCurrentFrame() of the last evaluation, -1 before the first
    titleOpacity,      \* the title's opacity in the last evaluation, [num, den]
    opacity            \* per item: its startFrame and its opacity [num, den]

clipVars == <<props, dagre, routing, harnessFrames, durationInFrames, pc,
              frame, layout, scale, translate, visual,
              nodeStartFrames, edgeStartFrames, layoutCalls, scheduleCalls>>
wrapVars == <<label, maxChars, wrapped, wpc>>
tokVars  == <<line, language, tokens, tpc>>
slideVars == <<slide, items, slideFrames, sframe, titleOpacity, opacity>>
vars     == <<clipVars, wrapVars, tokVars, slideVars>>

---------------------------------------------------------------------------
(* Bounds of the model *)

\* longest node list drawn with arbitrary (possibly repeated) ids
MaxNodes == 2
\* longest edge list
MaxEdges == 2
\* longest node list of distinct ids, long enough for the 0.18 s floor of the
\* node interval to apply (0.55 * 90 / n < 0.18 * 30 from n = 10 on)
DenseNodes == 11
\* how many frames of a clip the harness is followed for
MaxFrames == 2
\* longest label handed to wrapLabel, and the largest character budget
MaxLabel == 6
MaxChars == 3
\* longest code line handed to tokenize
MaxLine == 4
\* most bullet points of a bullet slide and most lines of a code slide
MaxItems == 4

---------------------------------------------------------------------------
(* Generic helpers *)

Max(a, b) == IF a >= b THEN a ELSE b
Min(a, b) == IF a <= b THEN a ELSE b
Range(s) == {s[i] : i \in DOMAIN s}
SeqsUpTo(S, n) == UNION {[1..k -> S] : k \in 0..n}

\* Math.round(p / q) for q > 0: round half up
Round(p, q) == (2 * p + q) \div (2 * q)

\* interpolate(frame, [lo, hi], [0, 1], { extrapolateLeft: "clamp",
\* extrapolateRight: "clamp" }) for lo < hi, as the fraction num/den
interpolate_noClamp(f, lo, hi) == [num |-> f - lo, den |-> hi - lo]
interpolate(f, lo, hi) == [num |-> Max(0, Min(f - lo, hi - lo)), den |-> hi - lo]

---------------------------------------------------------------------------
(* FlowchartAnimation.tsx: constants *)

NODE_W == 190
NODE_H == 60
DIAMOND_W == 160
DIAMOND_H == 100
RANKSEP == 90
NODESEP == 70
MARGIN == 60
PAD == 60
TITLE_BAND == 90
FPS == 30
WIDTH == 1920
HEIGHT == 1080
DEFAULT_DURATION_IN_FRAMES == 150
MIN_FRAMES == 90
LEAD_IN == 6

---------------------------------------------------------------------------
(* Inputs *)

IdNames == <<"A", "B", "C", "D", "E", "F", "G", "H", "I", "J", "K", "L", "M">>
IdIndex(id) == CHOOSE k \in DOMAIN IdNames : IdNames[k] = id
\* ids a small graph draws its nodes from
SmallIds == {"A", "B", "C"}
\* an id no node ever has
Dangling == "X"

ShapeOf(id) ==
    CASE id = "B" -> "diamond"
      [] id = "C" -> "circle"
      [] id = "D" -> "rounded"
      [] OTHER -> "box"

Node(id) == [id |-> id, shape |-> ShapeOf(id)]
Edge(f, t) == [from |-> f, to |-> t]

SmallNodeLists == {[i \in DOMAIN s |-> Node(s[i])] : s \in SeqsUpTo(SmallIds, MaxNodes)}
\* the lists of n distinct ids A, B, C, ... longer than MaxNodes
DistinctNodeList(n) == [i \in 1..n |-> Node(IdNames[i])]
DenseNodeLists == {DistinctNodeList(n) : n \in (MaxNodes + 1)..DenseNodes}
NodeLists == SmallNodeLists \cup DenseNodeLists

\* edges between nodes (with the 2-cycle A->B->A), and one from an id no node
\* has; A->C and B->A dangle as well when their target is not in the node list
EdgePool == {Edge("A", "B"), Edge("A", "C"), Edge("B", "A"), Edge(Dangling, "A")}
EdgeLists == SeqsUpTo(EdgePool, MaxEdges)

\* durationSeconds in hundredths of a second; -1 is undefined
Undefined == 0 - 1
Durations == {Undefined, 0, 100, 335, 500}
Titles == {"", "T"}

\* The placements Dagre.layout may produce: every node gets its own cell
\* (rank, column) of a grid (ranks are ranksep apart, columns nodesep apart)
Placements == {"tree", "rchain"}
\* the same, and a layout that leaves every node but A without a position
\* (g.node(id) is undefined)
PlacementsOrLost == Placements \cup {"lost"}

\* What g.edge(from, to) may yield: a route of three points, a route of two,
\* a route of a single point, an edge object without points, no edge object,
\* or an exception
Routings == {"route", "direct", "short", "nopoints", "none", "throws"}


---------------------------------------------------------------------------
(* Root: calculateMetadata *)

\* Math.max(90, Math.round((props.durationSeconds ?? 5) * 30)), d in hundredths
calculateMetadata_floor(d) ==
    Max(MIN_FRAMES, (((IF d = Undefined THEN 500 ELSE d) * FPS) \div 100))
calculateMetadata(d) ==
    Max(MIN_FRAMES, Round((IF d = Undefined THEN 500 ELSE d) * FPS, 100))

---------------------------------------------------------------------------
(* computeLayout *)

\* the cell Dagre.layout gives node id under a placement
DagreCell(placement, id) ==
    LET k == IdIndex(id) IN
    CASE placement = "tree"   -> IF k = 1 THEN [rank |-> 0, col |-> 0]
                                          ELSE [rank |-> 1, col |-> k - 2]
      [] placement = "rchain" -> [rank |-> Len(IdNames) - k, col |-> 0]
      [] placement = "lost"   -> [rank |-> 0, col |-> 0]

\* whether g.node(id) is an object: the id was given to g.setNode and the
\* layout positioned it
HasGNode(nodes, placement, id) ==
    /\ \E i \in DOMAIN nodes : nodes[i].id = id
    /\ placement # "lost" \/ id = "A"

\* whether g.edge(from, to) is an edge of the graph: g.setEdge was called for
\* it, which needs both ends among the node ids
HasGEdge(nodes, e) ==
    /\ \E i \in DOMAIN nodes : nodes[i].id = e.from
    /\ \E i \in DOMAIN nodes : nodes[i].id = e.to

\* g.setNode(n.id, {width, height}) for every n in order: the last entry of
\* an id decides the size the graph keeps for it
SetNodeSize(nodes, id) ==
    LET last == CHOOSE i \in DOMAIN nodes :
                    /\ nodes[i].id = id
                    /\ \A j \in DOMAIN nodes : nodes[j].id = id => j <= i
        isDiamond == nodes[last].shape = "diamond"
    IN [width  |-> IF isDiamond THEN DIAMOND_W ELSE NODE_W,
        height |-> IF isDiamond THEN DIAMOND_H ELSE NODE_H]

\* g.node(id) after Dagre.layout(g)
GNode(nodes, placement, id) ==
    LET c == DagreCell(placement, id)
        sz == SetNodeSize(nodes, id)
    IN [x |-> MARGIN + NODE_W \div 2 + c.col * (NODE_W + NODESEP),
        y |-> MARGIN + NODE_H \div 2 + c.rank * (NODE_H + RANKSEP),
        width |-> sz.width, height |-> sz.height]

validEdgeIds(nodes) == {nodes[i].id : i \in DOMAIN nodes}

IsValidEdge_fromOnly(e, ids) == e.from \in ids
IsValidEdge(e, ids) == e.from \in ids /\ e.to \in ids

\* edges.filter((e) => validEdgeIds.has(e.from) && validEdgeIds.has(e.to))
RECURSIVE FilterEdges(_, _)
FilterEdges(edges, ids) ==
    IF edges = <<>> THEN <<>>
    ELSE LET rest == FilterEdges(Tail(edges), ids) IN
         IF IsValidEdge(Head(edges), ids) THEN <<Head(edges)>> \o rest ELSE rest

\* { x: pos?.x ?? 0, y: pos?.y ?? 0 } of g.node(id)
Centre(nodes, placement, id) ==
    IF HasGNode(nodes, placement, id)
    THEN [x |-> GNode(nodes, placement, id).x, y |-> GNode(nodes, placement, id).y]
    ELSE [x |-> 0, y |-> 0]

\* try { info = g.edge(e.from, e.to); points = info?.points ?? [] } catch {}
\* with points = [] before it
RoutePoints(nodes, placement, route, e) ==
    LET a == GNode(nodes, placement, e.from)
        b == GNode(nodes, placement, e.to)
        pa == [x |-> a.x, y |-> a.y]
        pb == [x |-> b.x, y |-> b.y]
        mid == [x |-> (a.x + b.x) \div 2, y |-> (a.y + b.y) \div 2]
    IN CASE ~HasGEdge(nodes, e) -> <<>>
         [] route = "route"    -> <<pa, mid, pb>>
         [] route = "direct"   -> <<pa, pb>>
         [] route = "short"    -> <<mid>>
         [] route = "nopoints" -> <<>>
         [] route = "none"     -> <<>>
         [] route = "throws"   -> <<>>

\* if (points.length < 2) points = [the centre of e.from, the centre of e.to]
EdgePoints_asRouted(nodes, placement, route, e) ==
    RoutePoints(nodes, placement, route, e)
EdgePoints(nodes, placement, route, e) ==
    LET points == RoutePoints(nodes, placement, route, e) IN
    IF Len(points) < 2
    THEN <<Centre(nodes, placement, e.from), Centre(nodes, placement, e.to)>>
    ELSE points

\* { ...e, points }
WithPoints(e, points) ==
    [f \in DOMAIN e \cup {"points"} |-> IF f = "points" THEN points ELSE e[f]]
\* the EdgeData a LayoutEdge extends
EdgeDataOf(le) == [f \in DOMAIN le \ {"points"} |-> le[f]]

computeLayout(nodes, edges, placement, route) ==
    [nodes |-> [i \in DOMAIN nodes |->
                   LET has == HasGNode(nodes, placement, nodes[i].id)
                       pos == GNode(nodes, placement, nodes[i].id)
                   IN [id |-> nodes[i].id, shape |-> nodes[i].shape,
                       x |-> IF has THEN pos.x ELSE 0,
                       y |-> IF has THEN pos.y ELSE 0,
                       w |-> IF has THEN pos.width ELSE NODE_W,
                       h |-> IF has THEN pos.height ELSE NODE_H]],
     edges |-> LET valid == FilterEdges(edges, validEdgeIds(nodes)) IN
               [i \in DOMAIN valid |->
                   WithPoints(valid[i], EdgePoints(nodes, placement, route, valid[i]))]]

---------------------------------------------------------------------------
(* FlowchartAnimation: viewport fit *)

TITLE_H(title) == IF title # "" THEN TITLE_BAND ELSE 0

SetMin(S) == CHOOSE m \in S : \A o \in S : m <= o
SetMax(S) == CHOOSE m \in S : \A o \in S : m >= o

viewBox(lay) ==
    IF Len(lay.nodes) > 0
    THEN LET ns == Range(lay.nodes)
             xs == {n.x - n.w \div 2 : n \in ns} \cup {n.x + n.w \div 2 : n \in ns}
             ys == {n.y - n.h \div 2 : n \in ns} \cup {n.y + n.h \div 2 : n \in ns}
         IN [minX |-> SetMin(xs), maxX |-> SetMax(xs),
             minY |-> SetMin(ys), maxY |-> SetMax(ys)]
    ELSE [minX |-> 0, maxX |-> NODE_W, minY |-> 0, maxY |-> NODE_H]

graphW(lay) == viewBox(lay).maxX - viewBox(lay).minX + PAD * 2
graphH(lay) == viewBox(lay).maxY - viewBox(lay).minY + PAD * 2

\* the smaller of two fractions with positive denominators
FracMin(a, b) == IF a.num * b.den <= b.num * a.den THEN a ELSE b

\* Math.min((availW * 0.88) / graphW, (availH * 0.9) / graphH, 1.6)
Scale_noCap(lay, title) ==
    FracMin([num |-> WIDTH * 22, den |-> 25 * graphW(lay)],
            [num |-> (HEIGHT - TITLE_H(title)) * 9, den |-> 10 * graphH(lay)])
Scale(lay, title) ==
    FracMin(FracMin([num |-> WIDTH * 22, den |-> 25 * graphW(lay)],
                    [num |-> (HEIGHT - TITLE_H(title)) * 9, den |-> 10 * graphH(lay)]),
            [num |-> 8, den |-> 5])

\* tx = (availW - scaledW) / 2 - viewBox.minX * scale + PAD * scale and
\* ty = TITLE_H + (availH - scaledH) / 2 - viewBox.minY * scale + PAD * scale,
\* both over the denominator 2 * scale.den; sc is scale, gw and gh are graphW
\* and graphH
Translate_noPad(lay, title, sc) ==
    LET vb == viewBox(lay)
        gw == vb.maxX - vb.minX + PAD * 2
        gh == vb.maxY - vb.minY + PAD * 2
    IN [tx |-> WIDTH * sc.den - gw * sc.num - 2 * vb.minX * sc.num,
        ty |-> 2 * TITLE_H(title) * sc.den
                 + (HEIGHT - TITLE_H(title)) * sc.den - gh * sc.num
                 - 2 * vb.minY * sc.num,
        den |-> 2 * sc.den]
Translate(lay, title, sc) ==
    LET vb == viewBox(lay)
        gw == vb.maxX - vb.minX + PAD * 2
        gh == vb.maxY - vb.minY + PAD * 2
    IN [tx |-> WIDTH * sc.den - gw * sc.num
                 - 2 * vb.minX * sc.num + 2 * PAD * sc.num,
        ty |-> 2 * TITLE_H(title) * sc.den
                 + (HEIGHT - TITLE_H(title)) * sc.den - gh * sc.num
                 - 2 * vb.minY * sc.num + 2 * PAD * sc.num,
        den |-> 2 * sc.den]

---------------------------------------------------------------------------
(* FlowchartAnimation: animation timing *)

\* the comparator (a, b) => a.y - b.y || a.x - b.x
Compare(a, b) == IF a.y - b.y # 0 THEN a.y - b.y ELSE a.x - b.x

\* Array.prototype.sort is stable: an element goes after every element that
\* does not compare greater than it
RECURSIVE InsertSorted(_, _)
InsertSorted(sorted, n) ==
    IF sorted = <<>> THEN <<n>>
    ELSE IF Compare(Head(sorted), n) <= 0
         THEN <<Head(sorted)>> \o InsertSorted(Tail(sorted), n)
         ELSE <<n>> \o sorted

RECURSIVE SortNodes(_)
SortNodes(ns) ==
    IF ns = <<>> THEN <<>>
    ELSE InsertSorted(SortNodes(SubSeq(ns, 1, Len(ns) - 1)), ns[Len(ns)])

orderedIds(lay) == LET s == SortNodes(lay.nodes) IN [i \in DOMAIN s |-> s[i].id]

\* Math.max(fps * 0.18, (durationInFrames * 0.55) / Math.max(n, 1)) as num/den
nodeInterval_noFloor(n, total) ==
    [num |-> 55 * total, den |-> 100 * Max(n, 1)]
nodeInterval(n, total) ==
    [num |-> Max(18 * FPS * Max(n, 1), 55 * total), den |-> 100 * Max(n, 1)]

\* Math.round(i * nodeInterval + 6), i counted from 0
NodeStartAt_noLeadIn(i, iv) == Round(i * iv.num, iv.den)
NodeStartAt(i, iv) == Round(i * iv.num + LEAD_IN * iv.den, iv.den)

\* orderedIds.forEach((id, i) => { nodeStartFrames[id] = ... }): a later entry
\* of an id overwrites an earlier one
RECURSIVE AssignStartFrames(_, _, _, _)
AssignStartFrames(m, ids, i, iv) ==
    IF i > Len(ids) THEN m
    ELSE AssignStartFrames(
             [id \in DOMAIN m \cup {ids[i]} |->
                 IF id = ids[i] THEN NodeStartAt(i - 1, iv) ELSE m[id]],
             ids, i + 1, iv)

NodeStartFramesOf(lay, total) ==
    LET ids == orderedIds(lay) IN
    AssignStartFrames(<<>>, ids, 1, nodeInterval(Len(ids), total))

\* nodeStartFrames[id] ?? 0
StartOf(m, id) == IF id \in DOMAIN m THEN m[id] ELSE 0

\* Math.round(Math.max(a, b) + fps * 0.18)
EdgeStart_min(m, e) ==
    Round(100 * Min(StartOf(m, e.from), StartOf(m, e.to)) + 18 * FPS, 100)
EdgeStart(m, e) ==
    Round(100 * Max(StartOf(m, e.from), StartOf(m, e.to)) + 18 * FPS, 100)

EdgeStartFramesOf(lay, m) == [i \in DOMAIN lay.edges |-> EdgeStart(m, lay.edges[i])]

\* const EDGE_ANIM_FRAMES = Math.round(fps * 0.42)
EDGE_ANIM_FRAMES_floor == (42 * FPS) \div 100
EDGE_ANIM_FRAMES == Round(42 * FPS, 100)

---------------------------------------------------------------------------
(* AnimatedNode and AnimatedEdge: which elements a frame emits *)

\* edge.label, "" when the edge has none
LabelOf(e) == IF "label" \in DOMAIN e THEN e.label ELSE ""

\* AnimatedNode returns null if (frame < startFrame)
NodeEmitted_afterEdge(f, startFrame) == f >= startFrame + EDGE_ANIM_FRAMES
NodeEmitted(f, startFrame) == ~(f < startFrame)

\* interpolate(frame, [startFrame, startFrame + animFrames], [0, 1], clamped)
EdgeProgress(f, startFrame) ==
    interpolate(f, startFrame, startFrame + EDGE_ANIM_FRAMES)

\* edge.points[Math.floor(edge.points.length / 2)] ?? edge.points[0] is an
\* object exactly when the polyline is not empty
HasMid(e) == Len(e.points) > 0

\* AnimatedEdge: null if (progress <= 0); the label group is rendered when
\* edge.label && progress > 0.65 && mid
EdgeElement(e, f, startFrame) ==
    LET progress == EdgeProgress(f, startFrame) IN
    [progress |-> progress,
     emitted |-> ~(progress.num <= 0),
     labelShown |-> /\ ~(progress.num <= 0)
                    /\ LabelOf(e) # ""
                    /\ 100 * progress.num > 65 * progress.den
                    /\ HasMid(e)]

\* layout.edges.map(...) and layout.nodes.map(...) of the svg group
Elements(lay, nsf, esf, f) ==
    [edges |-> [i \in DOMAIN lay.edges |-> EdgeElement(lay.edges[i], f, esf[i])],
     nodes |-> [k \in DOMAIN lay.nodes |->
                   [id |-> lay.nodes[k].id,
                    emitted |-> NodeEmitted(f, StartOf(nsf, lay.nodes[k].id))]]]

---------------------------------------------------------------------------
(* One clip of the FlowchartAnimation composition *)

\* the harness requests every frame of the clip
WholeClip == 0 - 1
FramesRequested(total, requested) ==
    IF requested = WholeClip THEN total ELSE Min(total, requested)

EmptyLayout == [nodes |-> <<>>, edges |-> <<>>]

ClipIdle ==
    /\ props = [nodes |-> <<>>, edges |-> <<>>, title |-> "", durationSeconds |-> Undefined]
    /\ dagre = "tree"
    /\ routing = "route"
    /\ harnessFrames = 0
    /\ durationInFrames = DEFAULT_DURATION_IN_FRAMES
    /\ pc = "idle"
    /\ frame = 0 - 1
    /\ layout = EmptyLayout
    /\ scale = [num |-> 1, den |-> 1]
    /\ translate = [tx |-> 0, ty |-> 0, den |-> 1]
    /\ visual = EmptyLayout
    /\ nodeStartFrames = <<>>
    /\ edgeStartFrames = <<>>
    /\ layoutCalls = 0
    /\ scheduleCalls = 0

\* <Composition id="FlowchartAnimation" durationInFrames={150} ...> with the
\* caller's props
InitClip ==
    /\ props \in [nodes : NodeLists, edges : EdgeLists, title : Titles,
                  durationSeconds : Durations]
    /\ dagre \in Placements
    /\ routing = "route"
    /\ harnessFrames = MaxFrames
    /\ durationInFrames = DEFAULT_DURATION_IN_FRAMES
    /\ pc = "metadata"
    /\ frame = 0 - 1
    /\ layout = EmptyLayout
    /\ scale = [num |-> 1, den |-> 1]
    /\ translate = [tx |-> 0, ty |-> 0, den |-> 1]
    /\ visual = EmptyLayout
    /\ nodeStartFrames = <<>>
    /\ edgeStartFrames = <<>>
    /\ layoutCalls = 0
    /\ scheduleCalls = 0

CalculateMetadata ==
    /\ pc = "metadata"
    /\ durationInFrames' = calculateMetadata(props.durationSeconds)
    /\ pc' = "render"
    /\ UNCHANGED <<props, dagre, routing, harnessFrames, frame, layout, scale,
                   translate, visual, nodeStartFrames, edgeStartFrames, layoutCalls, scheduleCalls>>
    /\ UNCHANGED <<wrapVars, tokVars, slideVars>>

\* the harness evaluates the component for the next frame index; the body
\* of FlowchartAnimation runs from its first line
RenderFrame ==
    /\ pc = "render"
    /\ frame + 1 < FramesRequested(durationInFrames, harnessFrames)
    /\ frame' = frame + 1
    /\ layout' = computeLayout(props.nodes, props.edges, dagre, routing)
    /\ scale' = Scale(layout', props.title)
    /\ translate' = Translate(layout', props.title, scale')
    /\ nodeStartFrames' = NodeStartFramesOf(layout', durationInFrames)
    /\ edgeStartFrames' = EdgeStartFramesOf(layout', nodeStartFrames')
    /\ visual' = Elements(layout', nodeStartFrames', edgeStartFrames', frame')
    /\ layoutCalls' = layoutCalls + 1
    /\ scheduleCalls' = scheduleCalls + 1
    /\ UNCHANGED <<props, dagre, routing, harnessFrames, durationInFrames, pc>>
    /\ UNCHANGED <<wrapVars, tokVars, slideVars>>

WrapIdle == label = <<>> /\ maxChars = 0 /\ wrapped = <<>> /\ wpc = "idle"
TokIdle == line = <<>> /\ language = "" /\ tokens = <<>> /\ tpc = "idle"
SlideIdle ==
    /\ slide = "idle"
    /\ items = 0
    /\ slideFrames = DEFAULT_DURATION_IN_FRAMES
    /\ sframe = 0 - 1
    /\ titleOpacity = [num |-> 0, den |-> 1]
    /\ opacity = <<>>

Init == InitClip /\ WrapIdle /\ TokIdle /\ SlideIdle
Next == CalculateMetadata \/ RenderFrame
Spec == Init /\ [][Next]_vars

Rendered == pc = "render" /\ frame >= 0

---------------------------------------------------------------------------
(* Properties of the FlowchartAnimation clip *)

\* C1: once a frame has been evaluated, every edge of the laid-out edge list
\* has a start frame at or after the start frames the scheduler gave both of
\* its endpoints
EdgeStartsAfterEndpoints ==
    Rendered =>
        \A i \in DOMAIN layout.edges :
            LET e == layout.edges[i] IN
            /\ e.from \in DOMAIN nodeStartFrames
            /\ e.to \in DOMAIN nodeStartFrames
            /\ edgeStartFrames[i] >= nodeStartFrames[e.from]
            /\ edgeStartFrames[i] >= nodeStartFrames[e.to]

\* a graph with the cycle A->B->A whose two nodes start at different frames
EdgeStartsAfterEndpoints_witness ==
    /\ Rendered
    /\ Len(layout.edges) = 2
    /\ EdgeDataOf(layout.edges[1]) = Edge("A", "B")
    /\ EdgeDataOf(layout.edges[2]) = Edge("B", "A")
    /\ nodeStartFrames["A"] # nodeStartFrames["B"]
    /\ edgeStartFrames[1] > Max(nodeStartFrames["A"], nodeStartFrames["B"])

\* C2: the laid-out edge list is the subsequence, in the original order, of
\* the input edges whose two endpoints are node ids; a list of valid edges
\* comes out unchanged and filtering the result again changes nothing
LaidOutEdgesAreValidSubsequence ==
    Rendered =>
        LET ids == {props.nodes[i].id : i \in DOMAIN props.nodes}
            V == {i \in DOMAIN props.edges :
                     props.edges[i].from \in ids /\ props.edges[i].to \in ids}
            kth(k) == CHOOSE i \in V : Cardinality({j \in V : j <= i}) = k
        IN /\ Len(layout.edges) = Cardinality(V)
           /\ \A k \in DOMAIN layout.edges :
                  EdgeDataOf(layout.edges[k]) = props.edges[kth(k)]
           /\ V = DOMAIN props.edges =>
                  [k \in DOMAIN layout.edges |-> EdgeDataOf(layout.edges[k])]
                      = props.edges
           /\ computeLayout(props.nodes,
                            [k \in DOMAIN layout.edges |-> EdgeDataOf(layout.edges[k])],
                            dagre, routing).edges = layout.edges

\* a dangling edge in front of a valid one: only the second is laid out
LaidOutEdgesAreValidSubsequence_witness ==
    /\ Rendered
    /\ Len(props.edges) = 2
    /\ props.edges[1].from = Dangling
    /\ Len(layout.edges) = 1
    /\ EdgeDataOf(layout.edges[1]) = props.edges[2]

\* C3: the clip's frame count is max(90, round(durationSeconds * 30)): never
\* below 90, the nearest integer (half up) to durationSeconds * 30 above it,
\* and 90, 150, 90 for 1, 5 and 0 seconds
TotalFramesFloor ==
    pc = "render" =>
        LET d == IF props.durationSeconds = Undefined THEN 500
                 ELSE props.durationSeconds
        IN /\ durationInFrames >= 90
           /\ durationInFrames > 90 =>
                  /\ 100 * durationInFrames - 50 <= 30 * d
                  /\ 30 * d < 100 * durationInFrames + 50
           /\ durationInFrames = 90 => 30 * d < 9050
           /\ props.durationSeconds = 100 => durationInFrames = 90
           /\ props.durationSeconds = 500 => durationInFrames = 150
           /\ props.durationSeconds = 0 => durationInFrames = 90

\* a one-second clip is lifted to the 90-frame floor
TotalFramesFloor_witness ==
    pc = "render" /\ props.durationSeconds = 100 /\ durationInFrames = 90

\* the graph of C4: A above B and C, B left of C, edges A->B and A->C,
\* 150 frames at 30 fps
TreeScenario ==
    /\ Rendered
    /\ props.nodes = <<Node("A"), Node("B"), Node("C")>>
    /\ props.edges = <<Edge("A", "B"), Edge("A", "C")>>
    /\ durationInFrames = 150
    /\ FPS = 30
    /\ layout.nodes[1].y < layout.nodes[2].y
    /\ layout.nodes[2].y = layout.nodes[3].y
    /\ layout.nodes[2].x < layout.nodes[3].x

\* C4 as stated: A, B, C start at frames 6, 34 and 62
TreeScenarioStartFrames_asClaimed ==
    TreeScenario =>
        /\ nodeStartFrames["A"] = 6
        /\ nodeStartFrames["B"] = 34
        /\ nodeStartFrames["C"] = 62

\* C4 (amended): in that scenario the node at position i of the reveal order
\* A, B, C starts at round(i * 27.5 + 6): A at 6, B at 34 and C at 61
TreeScenarioStartFrames ==
    TreeScenario =>
        /\ nodeStartFrames["A"] = 6
        /\ nodeStartFrames["B"] = 34
        /\ nodeStartFrames["C"] = 61
        /\ \A i \in 0..2 :
               nodeStartFrames[IdNames[i + 1]] = (2 * (i * 275 + 60) + 10) \div 20

TreeScenarioStartFrames_witness == TreeScenario /\ nodeStartFrames["C"] > 34

\* floor(0.18 * fps)
MinGap == (18 * FPS) \div 100

\* C5: the start frames of any two nodes with different ids are at least
\* floor(0.18 * fps) frames apart, and of two nodes with different ids the one
\* earlier in the reveal order (by y, then by x) starts strictly earlier
RevealsAreSpaced ==
    Rendered =>
        /\ \A p, q \in DOMAIN nodeStartFrames :
               p # q =>
                   \/ nodeStartFrames[p] - nodeStartFrames[q] >= MinGap
                   \/ nodeStartFrames[q] - nodeStartFrames[p] >= MinGap
        /\ \A i, j \in DOMAIN layout.nodes :
               LET a == layout.nodes[i]
                   b == layout.nodes[j]
               IN (a.id # b.id /\ (a.y < b.y \/ (a.y = b.y /\ a.x < b.x)))
                      => nodeStartFrames[a.id] < nodeStartFrames[b.id]

\* a graph dense enough for the 0.18 s floor to set the interval, in which
\* two reveals are exactly floor(0.18 * fps) frames apart
RevealsAreSpaced_witness ==
    /\ Rendered
    /\ 55 * durationInFrames < 18 * FPS * Len(layout.nodes)
    /\ \E p, q \in DOMAIN nodeStartFrames :
           nodeStartFrames[q] - nodeStartFrames[p] = MinGap

\* C6: over the frames of one clip the layout and the schedule are computed
\* exactly once
LayoutComputedOnce == layoutCalls <= 1 /\ scheduleCalls <= 1

\* C7 as stated: with no nodes the scale is 1, and the scale is always a
\* finite positive number
EmptyGraphScale_asClaimed ==
    Rendered =>
        /\ scale.num > 0 /\ scale.den > 0
        /\ props.nodes = <<>> => scale.num = scale.den

\* C7 (amended): with no nodes the scale is the 1.6 cap, and the scale is
\* always a finite positive number
EmptyGraphScale ==
    Rendered =>
        /\ scale.num > 0 /\ scale.den > 0
        /\ props.nodes = <<>> => 5 * scale.num = 8 * scale.den

EmptyGraphScale_witness == Rendered /\ props.nodes = <<>> /\ layout.nodes = <<>>

\* C11: the laid-out node list holds at most one entry per node id, also when
\* an id occurs more than once in the input node list
LaidOutNodesAreDeduplicated ==
    Rendered =>
        \A i, j \in DOMAIN layout.nodes :
            layout.nodes[i].id = layout.nodes[j].id => i = j

\* the sign of a/b - c/d for a, c >= 0 and b, d > 0, by Euclid's algorithm
\* (no product is formed, so nothing leaves the 32-bit integers)
RECURSIVE FracCmp(_, _, _, _)
FracCmp(a, b, c, d) ==
    IF a \div b # c \div d THEN (IF a \div b < c \div d THEN 0 - 1 ELSE 1)
    ELSE IF a % b = 0 /\ c % d = 0 THEN 0
    ELSE IF a % b = 0 THEN 0 - 1
    ELSE IF c % d = 0 THEN 1
    ELSE FracCmp(d, c % d, b, a % b)

\* the image of the layout abscissa x and ordinate y under
\* translate(tx, ty) scale(scale), over the denominator translate.den
MappedX(x) == 2 * x * scale.num + translate.tx
MappedY(y) == 2 * y * scale.num + translate.ty

\* C15: for a non-empty layout the scale is min(width * 0.88 / paddedWidth,
\* (height - titleHeight) * 0.9 / paddedHeight, 1.6); the padded bounding box
\* of the node boxes maps to a rectangle centred in the area below the title
\* band; and every node box maps inside [0, width] x [titleHeight, height],
\* titleHeight being 90 with a non-empty title and 0 otherwise
ViewportFitIsCentred ==
    (Rendered /\ Len(layout.nodes) > 0) =>
        LET ns == Range(layout.nodes)
            titleHeight == IF props.title = "" THEN 0 ELSE 90
            left   == SetMin({n.x - n.w \div 2 : n \in ns}) - 60
            right  == SetMax({n.x + n.w \div 2 : n \in ns}) + 60
            top    == SetMin({n.y - n.h \div 2 : n \in ns}) - 60
            bottom == SetMax({n.y + n.h \div 2 : n \in ns}) + 60
            paddedWidth == right - left
            paddedHeight == bottom - top
            den == translate.den
        IN \* the scale is at most each of the three bounds and equals one
           /\ FracCmp(scale.num, scale.den, 1920 * 88, 100 * paddedWidth) <= 0
           /\ FracCmp(scale.num, scale.den,
                      (1080 - titleHeight) * 9, 10 * paddedHeight) <= 0
           /\ FracCmp(scale.num, scale.den, 16, 10) <= 0
           /\ \/ FracCmp(scale.num, scale.den, 1920 * 88, 100 * paddedWidth) = 0
              \/ FracCmp(scale.num, scale.den,
                         (1080 - titleHeight) * 9, 10 * paddedHeight) = 0
              \/ FracCmp(scale.num, scale.den, 16, 10) = 0
           \* equal margins left and right, and above and below
           /\ den = 2 * scale.den
           /\ MappedX(left) - 0 = 1920 * den - MappedX(right)
           /\ MappedY(top) - titleHeight * den = 1080 * den - MappedY(bottom)
           \* every node box is inside the canvas below the title band
           /\ \A n \in ns :
                  /\ 0 <= MappedX(n.x - n.w \div 2)
                  /\ MappedX(n.x + n.w \div 2) <= 1920 * den
                  /\ titleHeight * den <= MappedY(n.y - n.h \div 2)
                  /\ MappedY(n.y + n.h \div 2) <= 1080 * den

\* a titled graph too wide for scale 1.6: the width bound sets the scale and
\* the padded box is wider than the canvas before scaling
ViewportFitIsCentred_witness ==
    /\ Rendered
    /\ props.title # ""
    /\ Len(layout.nodes) >= 3
    /\ scale.num * 5 < 8 * scale.den
    /\ MappedX(60) > 0
    /\ \E n \in Range(layout.nodes) : n.x + n.w \div 2 > 1920

---------------------------------------------------------------------------
(* The clip under every outcome of the layout library *)

\* a small graph, one evaluated frame, and any placement and any outcome of
\* g.edge for its edges
InitRoute ==
    /\ props \in [nodes : SmallNodeLists, edges : EdgeLists, title : {""},
                  durationSeconds : {Undefined}]
    /\ dagre \in PlacementsOrLost
    /\ routing \in Routings
    /\ harnessFrames = 1
    /\ durationInFrames = DEFAULT_DURATION_IN_FRAMES
    /\ pc = "metadata"
    /\ frame = 0 - 1
    /\ layout = EmptyLayout
    /\ scale = [num |-> 1, den |-> 1]
    /\ translate = [tx |-> 0, ty |-> 0, den |-> 1]
    /\ visual = EmptyLayout
    /\ nodeStartFrames = <<>>
    /\ edgeStartFrames = <<>>
    /\ layoutCalls = 0
    /\ scheduleCalls = 0
    /\ WrapIdle
    /\ TokIdle
    /\ SlideIdle

SpecRoute == InitRoute /\ [][Next]_vars

\* the laid-out centre of the node with the given id
CentreOf(id) ==
    LET n == CHOOSE m \in Range(layout.nodes) : m.id = id IN [x |-> n.x, y |-> n.y]

\* C12: every laid-out edge has a polyline of at least 2 points; when the
\* layout library yields no route, throws, or yields fewer than 2 points, the
\* polyline is exactly the centres of the two endpoints, with (0,0) for an
\* endpoint the layout gave no position
PolylineHasTwoPoints ==
    Rendered =>
        \A i \in DOMAIN layout.edges :
            LET e == layout.edges[i] IN
            /\ Len(e.points) >= 2
            /\ routing \in {"short", "nopoints", "none", "throws"} =>
                   /\ e.points = <<CentreOf(e.from), CentreOf(e.to)>>
                   /\ (dagre = "lost" /\ e.from # "A") => e.points[1] = [x |-> 0, y |-> 0]
                   /\ (dagre = "lost" /\ e.to # "A") => e.points[2] = [x |-> 0, y |-> 0]

\* g.edge throws for the edge A->B and the layout gave B no position: the
\* polyline runs from A's centre to (0,0)
PolylineHasTwoPoints_witness ==
    /\ Rendered
    /\ routing = "throws"
    /\ dagre = "lost"
    /\ Len(layout.edges) >= 1
    /\ EdgeDataOf(layout.edges[1]) = Edge("A", "B")
    /\ layout.edges[1].points = <<[x |-> 155, y |-> 90], [x |-> 0, y |-> 0]>>

---------------------------------------------------------------------------
(* The clip followed through all of its frames *)

LabelledEdge(f, t, l) == [from |-> f, to |-> t, label |-> l]

\* an edge with a label, one without the label property, and one whose
\* label is the empty string
FrameEdgePool ==
    {LabelledEdge("A", "B", "yes"), Edge("B", "A"), LabelledEdge("A", "C", "")}
\* the lists of 1 .. MaxNodes + 1 distinct ids, and A given twice
FrameNodeLists ==
    {DistinctNodeList(n) : n \in 1..(MaxNodes + 1)} \cup {<<Node("A"), Node("A")>>}

InitFrames ==
    /\ props \in [nodes : FrameNodeLists, edges : SeqsUpTo(FrameEdgePool, MaxEdges),
                  title : {""}, durationSeconds : {0, 335}]
    /\ dagre \in Placements
    /\ routing \in {"route", "none"}
    /\ harnessFrames = WholeClip
    /\ durationInFrames = DEFAULT_DURATION_IN_FRAMES
    /\ pc = "metadata"
    /\ frame = 0 - 1
    /\ layout = EmptyLayout
    /\ scale = [num |-> 1, den |-> 1]
    /\ translate = [tx |-> 0, ty |-> 0, den |-> 1]
    /\ visual = EmptyLayout
    /\ nodeStartFrames = <<>>
    /\ edgeStartFrames = <<>>
    /\ layoutCalls = 0
    /\ scheduleCalls = 0
    /\ WrapIdle
    /\ TokIdle
    /\ SlideIdle

SpecFrames == InitFrames /\ [][Next]_vars

\* round(0.42 * fps) at the composition's 30 fps
DrawFrames == (2 * 42 * 30 + 100) \div 200

\* C14: an edge's draw progress is 0 at frames <= its start frame, rises
\* linearly to 1 at start frame + round(0.42 * fps) and is 1 afterwards, always
\* within [0,1] and never below its value at an earlier frame; its label is
\* shown only if the edge has a non-empty label and the progress is above
\* 0.65, and a label shown at an earlier frame is shown at this frame
EdgeProgressIsMonotone ==
    Rendered =>
        /\ DOMAIN visual.edges = DOMAIN layout.edges
        /\ \A i \in DOMAIN visual.edges :
               LET e == layout.edges[i]
                   v == visual.edges[i]
                   p == v.progress
                   start == edgeStartFrames[i]
               IN /\ p.den > 0 /\ 0 <= p.num /\ p.num <= p.den
                  /\ frame <= start => p.num = 0
                  /\ (start <= frame /\ frame <= start + DrawFrames) =>
                         p.num * DrawFrames = (frame - start) * p.den
                  /\ frame >= start + DrawFrames => p.num = p.den
                  /\ \A f \in 0..frame :
                         /\ EdgeProgress(f, start).num * p.den
                                <= p.num * EdgeProgress(f, start).den
                         /\ EdgeElement(e, f, start).labelShown => v.labelShown
                  /\ v.labelShown =>
                         /\ "label" \in DOMAIN e
                         /\ e.label # ""
                         /\ 100 * p.num > 65 * p.den

\* a labelled edge part-way through its draw, its label already shown, next
\* to an unlabelled edge drawn just as far that shows none
EdgeProgressIsMonotone_witness ==
    /\ Rendered
    /\ Len(visual.edges) >= 1
    /\ visual.edges[1].labelShown
    /\ visual.edges[1].progress.num < visual.edges[1].progress.den
    /\ \E i \in DOMAIN visual.edges :
           /\ LabelOf(layout.edges[i]) = ""
           /\ 100 * visual.edges[i].progress.num > 65 * visual.edges[i].progress.den
           /\ ~visual.edges[i].labelShown

\* C16: at every frame, if an edge element is emitted then a node element is
\* emitted for each of its two endpoints, and every node element of those ids
\* is emitted; an element emitted at an earlier frame is emitted at this frame
EdgesNeverPrecedeTheirNodes ==
    Rendered =>
        /\ DOMAIN visual.edges = DOMAIN layout.edges
        /\ DOMAIN visual.nodes = DOMAIN layout.nodes
        /\ \A i \in DOMAIN visual.edges :
               LET e == layout.edges[i] IN
               /\ visual.edges[i].emitted <=> visual.edges[i].progress.num > 0
               /\ visual.edges[i].emitted =>
                      /\ \E k \in DOMAIN visual.nodes :
                             visual.nodes[k].id = e.from /\ visual.nodes[k].emitted
                      /\ \E k \in DOMAIN visual.nodes :
                             visual.nodes[k].id = e.to /\ visual.nodes[k].emitted
                      /\ \A k \in DOMAIN visual.nodes :
                             visual.nodes[k].id \in {e.from, e.to} =>
                                 visual.nodes[k].emitted
                      /\ frame >= nodeStartFrames[e.from]
                      /\ frame >= nodeStartFrames[e.to]
               /\ \A f \in 0..frame :
                      EdgeElement(e, f, edgeStartFrames[i]).emitted =>
                          visual.edges[i].emitted
        /\ \A k \in DOMAIN visual.nodes :
               \A f \in 0..frame :
                   NodeEmitted(f, StartOf(nodeStartFrames, visual.nodes[k].id)) =>
                       visual.nodes[k].emitted

\* the edge A->B is being drawn between two emitted nodes while a third
\* node has not appeared yet
EdgesNeverPrecedeTheirNodes_witness ==
    /\ Rendered
    /\ Len(visual.edges) >= 1
    /\ EdgeDataOf(layout.edges[1]).from = "A"
    /\ layout.edges[1].to = "B"
    /\ visual.edges[1].emitted
    /\ \E k \in DOMAIN visual.nodes :
           visual.nodes[k].id = "C" /\ ~visual.nodes[k].emitted

---------------------------------------------------------------------------
(* FlowchartAnimation.tsx: wrapLabel *)

\* the one character U+2026 (horizontal ellipsis)
Ellipsis == "..."
IsSpace(c) == c = " "

\* label.split(/\s+/): the pieces between maximal runs of white space, an
\* empty piece before a leading run and after a trailing one.  i is the next
\* index, cur the piece being read, inRun whether s[i-1] was white space
RECURSIVE SplitSpaces(_, _, _, _)
SplitSpaces(s, i, cur, inRun) ==
    IF i > Len(s) THEN <<cur>>
    ELSE IF IsSpace(s[i])
         THEN IF inRun THEN SplitSpaces(s, i + 1, cur, TRUE)
              ELSE <<cur>> \o SplitSpaces(s, i + 1, <<>>, TRUE)
         ELSE SplitSpaces(s, i + 1, Append(cur, s[i]), FALSE)

\* w.slice(0, maxChars - 1) + "..."
CutWord_keepAll(w, max) == SubSeq(w, 1, max) \o <<Ellipsis>>
CutWord(w, max) == SubSeq(w, 1, max - 1) \o <<Ellipsis>>

\* the for loop over the words and the push of the last line
RECURSIVE WrapWords(_, _, _, _)
WrapWords(words, lines, cur, max) ==
    IF words = <<>> THEN (IF cur # <<>> THEN Append(lines, cur) ELSE lines)
    ELSE LET w == Head(words)
             candidate == IF cur # <<>> THEN cur \o <<" ">> \o w ELSE w
         IN IF Len(candidate) > max
            THEN WrapWords(Tail(words),
                           IF cur # <<>> THEN Append(lines, cur) ELSE lines,
                           IF Len(w) > max THEN CutWord(w, max) ELSE w,
                           max)
            ELSE WrapWords(Tail(words), lines, candidate, max)

\* the lines before lines.slice(0, 2)
WrapLines(lbl, max) == WrapWords(SplitSpaces(lbl, 1, <<>>, FALSE), <<>>, <<>>, max)

wrapLabel(lbl, max) ==
    IF Len(lbl) <= max THEN <<lbl>>
    ELSE LET lines == WrapLines(lbl, max) IN SubSeq(lines, 1, Min(2, Len(lines)))

LabelChars == {"a", "b", " ", Ellipsis}

InitWrap ==
    /\ label \in SeqsUpTo(LabelChars, MaxLabel)
    /\ maxChars \in 2..MaxChars
    /\ wrapped = <<>>
    /\ wpc = "call"
    /\ ClipIdle
    /\ TokIdle
    /\ SlideIdle

WrapLabel ==
    /\ wpc = "call"
    /\ wrapped' = wrapLabel(label, maxChars)
    /\ wpc' = "done"
    /\ UNCHANGED <<label, maxChars>>
    /\ UNCHANGED <<clipVars, tokVars, slideVars>>

NextWrap == WrapLabel
SpecWrap == InitWrap /\ [][NextWrap]_vars

\* C8: wrapLabel returns at most 2 lines; for a label longer than maxChars
\* every returned line has at most maxChars characters, and a label that is
\* one word comes back as its first maxChars - 1 characters followed by one
\* ellipsis
WrapLabelBounded ==
    wpc = "done" =>
        /\ Len(wrapped) <= 2
        /\ Len(label) > maxChars =>
               /\ \A i \in DOMAIN wrapped : Len(wrapped[i]) <= maxChars
               /\ (\A k \in DOMAIN label : label[k] # " ") =>
                      /\ Len(wrapped) = 1
                      /\ Len(wrapped[1]) = maxChars
                      /\ \A k \in 1..(maxChars - 1) : wrapped[1][k] = label[k]
                      /\ wrapped[1][maxChars] = Ellipsis

\* the one word "abab" with a budget of 3 comes back as "ab" + ellipsis
WrapLabelBounded_witness ==
    /\ wpc = "done"
    /\ label = <<"a", "b", "a", "b">>
    /\ maxChars = 3
    /\ wrapped = <<(<<"a", "b", Ellipsis>>)>>

\* C9: when the words need more than two lines, two lines are returned and
\* the second ends with an ellipsis
DroppedTextIsSignalled ==
    (wpc = "done" /\ Len(label) > maxChars /\ Len(WrapLines(label, maxChars)) > 2) =>
        /\ Len(wrapped) = 2
        /\ wrapped[2] # <<>>
        /\ wrapped[2][Len(wrapped[2])] = Ellipsis

---------------------------------------------------------------------------
(* CodeSlide.tsx: tokenize *)

\* the keywords object, each keyword as its characters
KeywordTable ==
  [
    python |->
      <<
        <<"d", "e", "f">>, <<"c", "l", "a", "s", "s">>, <<"i", "m", "p",
        "o", "r", "t">>, <<"f", "r", "o", "m">>, <<"r", "e", "t", "u",
        "r", "n">>, <<"i", "f">>, <<"e", "l", "s", "e">>, <<"e", "l", "i",
        "f">>, <<"f", "o", "r">>, <<"w", "h", "i", "l", "e">>, <<"i",
        "n">>, <<"n", "o", "t">>, <<"a", "n", "d">>, <<"o", "r">>, <<"T",
        "r", "u", "e">>, <<"F", "a", "l", "s", "e">>, <<"N", "o", "n",
        "e">>, <<"w", "i", "t", "h">>, <<"a", "s">>, <<"t", "r", "y">>,
        <<"e", "x", "c", "e", "p", "t">>, <<"r", "a", "i", "s", "e">>,
        <<"l", "a", "m", "b", "d", "a">>, <<"y", "i", "e", "l", "d">>,
        <<"a", "s", "y", "n", "c">>, <<"a", "w", "a", "i", "t">>
      >>,
    javascript |->
      <<
        <<"f", "u", "n", "c", "t", "i", "o", "n">>, <<"c", "o", "n", "s",
        "t">>, <<"l", "e", "t">>, <<"v", "a", "r">>, <<"r", "e", "t", "u",
        "r", "n">>, <<"i", "f">>, <<"e", "l", "s", "e">>, <<"f", "o",
        "r">>, <<"w", "h", "i", "l", "e">>, <<"c", "l", "a", "s", "s">>,
        <<"i", "m", "p", "o", "r", "t">>, <<"e", "x", "p", "o", "r",
        "t">>, <<"f", "r", "o", "m">>, <<"d", "e", "f", "a", "u", "l",
        "t">>, <<"a", "s", "y", "n", "c">>, <<"a", "w", "a", "i", "t">>,
        <<"n", "e", "w">>, <<"t", "h", "i", "s">>, <<"t", "r", "u", "e">>,
        <<"f", "a", "l", "s", "e">>, <<"n", "u", "l", "l">>, <<"u", "n",
        "d", "e", "f", "i", "n", "e", "d">>
      >>,
    go |->
      <<
        <<"f", "u", "n", "c">>, <<"p", "a", "c", "k", "a", "g", "e">>,
        <<"i", "m", "p", "o", "r", "t">>, <<"v", "a", "r">>, <<"c", "o",
        "n", "s", "t">>, <<"t", "y", "p", "e">>, <<"s", "t", "r", "u",
        "c", "t">>, <<"i", "n", "t", "e", "r", "f", "a", "c", "e">>,
        <<"r", "e", "t", "u", "r", "n">>, <<"i", "f">>, <<"e", "l", "s",
        "e">>, <<"f", "o", "r">>, <<"r", "a", "n", "g", "e">>, <<"g",
        "o">>, <<"c", "h", "a", "n">>, <<"s", "e", "l", "e", "c", "t">>,
        <<"c", "a", "s", "e">>, <<"d", "e", "f", "e", "r">>, <<"m", "a",
        "p">>, <<"m", "a", "k", "e">>, <<"n", "i", "l">>, <<"t", "r", "u",
        "e">>, <<"f", "a", "l", "s", "e">>
      >>,
    sql |->
      <<
        <<"S", "E", "L", "E", "C", "T">>, <<"F", "R", "O", "M">>, <<"W",
        "H", "E", "R", "E">>, <<"J", "O", "I", "N">>, <<"L", "E", "F",
        "T">>, <<"R", "I", "G", "H", "T">>, <<"I", "N", "N", "E", "R">>,
        <<"O", "N">>, <<"G", "R", "O", "U", "P">>, <<"B", "Y">>, <<"O",
        "R", "D", "E", "R">>, <<"H", "A", "V", "I", "N", "G">>, <<"I",
        "N", "S", "E", "R", "T">>, <<"I", "N", "T", "O">>, <<"V", "A",
        "L", "U", "E", "S">>, <<"U", "P", "D", "A", "T", "E">>, <<"S",
        "E", "T">>, <<"D", "E", "L", "E", "T", "E">>, <<"C", "R", "E",
        "A", "T", "E">>, <<"T", "A", "B", "L", "E">>, <<"I", "N", "D",
        "E", "X">>, <<"A", "N", "D">>, <<"O", "R">>, <<"N", "O", "T">>,
        <<"N", "U", "L", "L">>, <<"A", "S">>, <<"L", "I", "M", "I", "T">>,
        <<"O", "F", "F", "S", "E", "T">>
      >>,
    bash |->
      <<
        <<"i", "f">>, <<"t", "h", "e", "n">>, <<"e", "l", "s", "e">>,
        <<"f", "i">>, <<"f", "o", "r">>, <<"d", "o">>, <<"d", "o", "n",
        "e">>, <<"w", "h", "i", "l", "e">>, <<"e", "c", "h", "o">>, <<"e",
        "x", "p", "o", "r", "t">>, <<"c", "d">>, <<"l", "s">>, <<"g", "r",
        "e", "p">>, <<"a", "w", "k">>, <<"s", "e", "d">>, <<"c", "a",
        "t">>, <<"r", "m">>, <<"m", "k", "d", "i", "r">>, <<"c", "h", "m",
        "o", "d">>
      >>,
    yaml |-> <<>>,
    text |-> <<>>
  ]

\* what keywords[language] finds on the prototype of an object literal when
\* language is no key of its own: a function or an object, never an array
ObjectPrototypeNames ==
    {"constructor", "toString", "toLocaleString", "valueOf", "hasOwnProperty",
     "isPrototypeOf", "propertyIsEnumerable", "__proto__"}

ToLowerChar(c) ==
    CASE c = "A" -> "a"
      [] c = "B" -> "b"
      [] c = "C" -> "c"
      [] c = "D" -> "d"
      [] c = "E" -> "e"
      [] c = "F" -> "f"
      [] c = "G" -> "g"
      [] c = "H" -> "h"
      [] c = "I" -> "i"
      [] c = "J" -> "j"
      [] c = "K" -> "k"
      [] c = "L" -> "l"
      [] c = "M" -> "m"
      [] c = "N" -> "n"
      [] c = "O" -> "o"
      [] c = "P" -> "p"
      [] c = "Q" -> "q"
      [] c = "R" -> "r"
      [] c = "S" -> "s"
      [] c = "T" -> "t"
      [] c = "U" -> "u"
      [] c = "V" -> "v"
      [] c = "W" -> "w"
      [] c = "X" -> "x"
      [] c = "Y" -> "y"
      [] c = "Z" -> "z"
      [] OTHER -> c

\* String.prototype.toLowerCase
ToLowerCase(s) == [i \in DOMAIN s |-> ToLowerChar(s[i])]

\* new Set((keywords[language] || []).map(k => k.toLowerCase())); evaluated
\* only where the lookup gives an array or nothing
KeywordSet_anyLanguage(lang) ==
    {ToLowerCase(k) : k \in Range(KeywordTable.python)}
KeywordSet(lang) ==
    IF lang \in DOMAIN KeywordTable
    THEN {ToLowerCase(k) : k \in Range(KeywordTable[lang])}
    ELSE {}

\* the one character U+0060 (backtick)
Backtick == "backtick"

\* the characters the split pattern captures one at a time
Separators ==
    {"(", ")", "{", "}", "[", "]", ",", ".", ":", ";", "=", "<", ">", "!", "+",
     "-", "*", "/", "%", "|", "&", "^", "~", "\"", "'", Backtick}
Quotes == {"\"", "'", Backtick}
Digits == {"0", "1", "2", "3", "4", "5", "6", "7", "8", "9"}

\* the index of the last character of the white-space run that starts at i
RECURSIVE RunEnd(_, _)
RunEnd(s, i) == IF i < Len(s) /\ IsSpace(s[i + 1]) THEN RunEnd(s, i + 1) ELSE i

\* line.split(/(\s+|[...])/): the text before each separator (a run of
\* white space or one character of Separators), then the separator, and the
\* text after the last one
RECURSIVE SplitParts(_, _, _)
SplitParts(s, i, cur) ==
    IF i > Len(s) THEN <<cur>>
    ELSE IF IsSpace(s[i])
         THEN <<cur, SubSeq(s, i, RunEnd(s, i))>> \o SplitParts(s, RunEnd(s, i) + 1, <<>>)
         ELSE IF s[i] \in Separators
              THEN <<cur, <<s[i]>>>> \o SplitParts(s, i + 1, <<>>)
              ELSE SplitParts(s, i + 1, Append(cur, s[i]))

StartsWith(s, prefix) ==
    Len(s) >= Len(prefix) /\ SubSeq(s, 1, Len(prefix)) = prefix

\* the chain of ifs in parts.map
Classify(part, kws) ==
    IF ToLowerCase(part) \in kws THEN "keyword"
    ELSE IF part # <<>> /\ part[1] \in Quotes THEN "string"
    ELSE IF part # <<>> /\ \A k \in DOMAIN part : part[k] \in Digits THEN "number"
    ELSE IF StartsWith(part, <<"#">>) \/ StartsWith(part, <<"/", "/">>) THEN "comment"
    ELSE "plain"

tokenize(ln, lang) ==
    LET parts == SplitParts(ln, 1, <<>>)
        kws == KeywordSet(lang)
    IN [i \in DOMAIN parts |-> [part |-> parts[i], kind |-> Classify(parts[i], kws)]]

\* whether (keywords[language] || []).map throws a TypeError
LookupThrows(lang) ==
    lang \notin DOMAIN KeywordTable /\ lang \in ObjectPrototypeNames

LineChars == {"i", "F", "1", "'", "#", " "}
Languages == DOMAIN KeywordTable \cup {"rust", "constructor"}

InitTok ==
    /\ line \in SeqsUpTo(LineChars, MaxLine)
    /\ language \in Languages
    /\ tokens = <<>>
    /\ tpc = "call"
    /\ ClipIdle
    /\ WrapIdle
    /\ SlideIdle

\* CodeSlide: tokenize(line || " ", language) for one line of the code
TokenizeLine ==
    /\ tpc = "call"
    /\ ~LookupThrows(language)
    /\ tokens' = tokenize(IF line = <<>> THEN <<" ">> ELSE line, language)
    /\ tpc' = "done"
    /\ UNCHANGED <<line, language>>
    /\ UNCHANGED <<clipVars, wrapVars, slideVars>>

TokenizeThrows ==
    /\ tpc = "call"
    /\ LookupThrows(language)
    /\ tpc' = "threw"
    /\ UNCHANGED <<line, language, tokens>>
    /\ UNCHANGED <<clipVars, wrapVars, slideVars>>

NextTok == TokenizeLine \/ TokenizeThrows
SpecTok == InitTok /\ [][NextTok]_vars

\* the languages C10 is about: no key of the table, or a key with no keywords
NoKeywordLanguage ==
    language \notin DOMAIN KeywordTable \/ KeywordTable[language] = <<>>

---------------------------------------------------------------------------
(* BulletsSlide.tsx and CodeSlide.tsx: the staggered items *)

\* const startFrame = 20 + i * 16 (bullet i) and 22 + i * 4 (code line i),
\* i counted from 0
ItemStart(kind, i) == IF kind = "bullets" THEN 20 + i * 16 ELSE 22 + i * 4
\* the length of the fade-in: [startFrame, startFrame + 12] and
\* [startFrame, startFrame + 8]
ItemFade(kind) == IF kind = "bullets" THEN 12 ELSE 8

\* the opacity of item i at a frame
ItemOpacity(kind, i, f) ==
    interpolate(f, ItemStart(kind, i), ItemStart(kind, i) + ItemFade(kind))

\* interpolate(frame, [0, 18], [0, 1], { extrapolateRight: "clamp" }); the
\* frame index is never negative
TitleOpacity(f) == [num |-> Min(f, 18), den |-> 18]

\* points.map / lines.map: one element per item
RenderItems(kind, n, f) ==
    [k \in 1..n |->
        [startFrame |-> ItemStart(kind, k - 1),
         num |-> ItemOpacity(kind, k - 1, f).num,
         den |-> ItemOpacity(kind, k - 1, f).den]]

SlideDurations == {0, 500}

\* a bullet slide of 0..MaxItems points or a code slide of 1..MaxItems lines
\* (code.split("\n") has at least one element)
InitSlide ==
    /\ slide \in {"bullets", "code"}
    /\ items \in 0..MaxItems
    /\ slide = "code" => items >= 1
    /\ slideFrames \in {calculateMetadata(d) : d \in SlideDurations}
    /\ sframe = 0 - 1
    /\ titleOpacity = [num |-> 0, den |-> 1]
    /\ opacity = <<>>
    /\ ClipIdle
    /\ WrapIdle
    /\ TokIdle

\* the harness evaluates BulletsSlide for the next frame index.  The
\* translateX of a bullet comes from remotion's spring and is not part of
\* the modelled output
RenderBullets ==
    /\ slide = "bullets"
    /\ sframe + 1 < slideFrames
    /\ sframe' = sframe + 1
    /\ titleOpacity' = TitleOpacity(sframe')
    /\ opacity' = RenderItems("bullets", items, sframe')
    /\ UNCHANGED <<slide, items, slideFrames>>
    /\ UNCHANGED <<clipVars, wrapVars, tokVars>>

\* the harness evaluates CodeSlide for the next frame index
RenderCode ==
    /\ slide = "code"
    /\ sframe + 1 < slideFrames
    /\ sframe' = sframe + 1
    /\ titleOpacity' = TitleOpacity(sframe')
    /\ opacity' = RenderItems("code", items, sframe')
    /\ UNCHANGED <<slide, items, slideFrames>>
    /\ UNCHANGED <<clipVars, wrapVars, tokVars>>

NextSlide == RenderBullets \/ RenderCode
SpecSlide == InitSlide /\ [][NextSlide]_vars

SlideRendered == slide # "idle" /\ sframe >= 0

\* C13: item i (from 0) starts at frame 20 + 16*i on a bullet slide and at
\* 22 + 4*i on a code slide; at every frame at or before its start frame its
\* opacity is 0; its opacity at a frame is never below its opacity at an
\* earlier frame; and an item is visible only if every item before it was
\* already visible one frame earlier
StaggeredItemsAppearInOrder ==
    SlideRendered =>
        /\ Len(opacity) = items
        /\ \A k \in DOMAIN opacity :
               LET o == opacity[k] IN
               /\ slide = "bullets" => o.startFrame = 20 + 16 * (k - 1)
               /\ slide = "code" => o.startFrame = 22 + 4 * (k - 1)
               /\ sframe <= o.startFrame => o.num = 0
               /\ 0 <= o.num /\ o.num <= o.den
               /\ \A f \in 0..sframe :
                      ItemOpacity(slide, k - 1, f).num * o.den
                          <= o.num * ItemOpacity(slide, k - 1, f).den
               /\ \A j \in DOMAIN opacity :
                      (j < k /\ o.num > 0) =>
                          /\ opacity[j].num > 0
                          /\ ItemOpacity(slide, j - 1, sframe - 1).num > 0

\* a code slide at frame 30, where the first line is fully visible, the
\* second is fading in and the third, exactly at its start frame, is not yet
\* visible
StaggeredItemsAppearInOrder_witness ==
    /\ SlideRendered
    /\ slide = "code"
    /\ items >= 3
    /\ opacity[1].num = opacity[1].den
    /\ opacity[2].num > 0 /\ opacity[2].num < opacity[2].den
    /\ sframe = opacity[3].startFrame
    /\ opacity[3].num = 0

=============================================================================
